---- MODULE Spec2Model ----
(***************************************************************************)
(* src/common.c of libfabric: the poll()-based fallback of fi_epoll        *)
(* (fi_epoll_create / fi_epoll_add / fi_epoll_del / fi_epoll_wait) and the *)
(* capability direction predicates (fi_send_allowed, fi_recv_allowed,      *)
(* fi_rma_initiate_allowed, fi_rma_target_allowed), and the deadline of    *)
(* fi_wait_cond.                                                           *)
(***************************************************************************)
EXTENDS Integers, Sequences, FiniteSets, TLC

\* ------------------------------------------------------------------ bounds
\* Descriptors the caller registers are 1..MaxFd.
MaxFd == 2
\* At most MaxNfds descriptors are registered on top of the initial table.
MaxNfds == 2
\* Calls made on the pre-added table.
MaxCalls == 3

\* -------------------------------------------------------- program constants
\* The growth increment of fi_epoll_add (common.c:264, 269).
GROW == 64
\* FI_ENOMEM and FI_EINVAL of rdma/fi_errno.h (ENOMEM, EINVAL).
FI_ENOMEM == 12
FI_EINVAL == 22
\* POLLIN of <poll.h>.
POLLIN == 1
\* errno values poll() fails with.
EINTR == 4
EFAULT == 14

NULL == 0

FdSet == 1..MaxFd
\* The context a caller passes with descriptor fd: the descriptor's own
\* token, and for descriptor 1 also no context at all (NULL).
CtxOf(fd) == IF fd = 1 THEN {NULL, 10 + fd} ELSE {10 + fd}
\* -1 blocks, 0 polls once.
Timeouts == {-1, 0}
PollErrs == {0, EINTR, EFAULT}

\* ------------------------------------------------------------ struct fi_epoll
\* calloc() memory: a zeroed struct pollfd, a NULL context.
ZeroPollfd == [fd |-> 0, events |-> 0, revents |-> 0]

\* ep->fds and ep->context are blocks of ep->size entries.  The model keeps
\* the entries written since the block was calloc'ed, entry i at position
\* i + 1 of a sequence; the entries above them are the zeros calloc left.
\* An index outside 0..size-1 is outside the block and has no value here.
PollfdAt(e, i) ==
  CASE 0 <= i /\ i < Len(e.fds) -> e.fds[i + 1]
    [] Len(e.fds) <= i /\ i < e.size -> ZeroPollfd

ContextAt(e, i) ==
  CASE 0 <= i /\ i < Len(e.context) -> e.context[i + 1]
    [] Len(e.context) <= i /\ i < e.size -> NULL

\* The block with entry i set to v; the entries between the written ones
\* and i are still zero.
Store(block, i, v, zero) ==
  IF i < Len(block) THEN [block EXCEPT ![i + 1] = v]
  ELSE block \o [k \in 1..(i - Len(block)) |-> zero] \o <<v>>

\* fi_epoll_create: calloc(1, sizeof(struct fi_epoll)), every field zero.
fi_epoll_create ==
  [size |-> 0, nfds |-> 0, fds |-> <<>>, context |-> <<>>, index |-> 0]

\* Mutant of Grow: the memcpy lengths are one entry short.
Grow_CopiesShort(e) ==
  [e EXCEPT !.size = e.size + GROW,
            !.fds = SubSeq(e.fds, 1, e.nfds - 1),
            !.context = SubSeq(e.context, 1, e.nfds - 1)]

\* Mutant of Grow: the block grows by one entry.
Grow_ByOne(e) ==
  [e EXCEPT !.size = e.size + 1,
            !.fds = SubSeq(e.fds, 1, e.nfds),
            !.context = SubSeq(e.context, 1, e.nfds)]

\* The growth branch of fi_epoll_add: a zeroed block of size + 64 entries
\* (calloc), the first nfds descriptors and contexts copied in (memcpy).
Grow(e) ==
  [e EXCEPT !.size = e.size + GROW,
            !.fds = SubSeq(e.fds, 1, e.nfds),
            !.context = SubSeq(e.context, 1, e.nfds)]

\* The insert of fi_epoll_add at slot nfds; revents is not written.
Insert(e, fd, ctx) ==
  [e EXCEPT !.fds = Store(e.fds, e.nfds,
                          [PollfdAt(e, e.nfds) EXCEPT !.fd = fd,
                                                      !.events = POLLIN],
                          ZeroPollfd),
            !.context = Store(e.context, e.nfds, ctx, NULL),
            !.nfds = e.nfds + 1]

\* Mutant of fi_epoll_add: ep->size is raised before calloc() is checked.
fi_epoll_add_SizeFirst(e, fd, ctx, allocOk) ==
  IF e.nfds = e.size
  THEN IF allocOk THEN [ep |-> Insert(Grow(e), fd, ctx), ret |-> 0]
       ELSE [ep |-> [e EXCEPT !.size = e.size + GROW], ret |-> -FI_ENOMEM]
  ELSE [ep |-> Insert(e, fd, ctx), ret |-> 0]

\* fi_epoll_add(ep, fd, context); allocOk is whether calloc() succeeds when
\* it is called.  Returns the handle after the call and the return value.
fi_epoll_add(e, fd, ctx, allocOk) ==
  IF e.nfds = e.size
  THEN IF allocOk THEN [ep |-> Insert(Grow(e), fd, ctx), ret |-> 0]
       ELSE [ep |-> e, ret |-> -FI_ENOMEM]
  ELSE [ep |-> Insert(e, fd, ctx), ret |-> 0]

\* Mutant of Matches: the loop stops one slot early (i < nfds - 1).
Matches_SkipsLast(e, fd) ==
  {i \in 0..(e.nfds - 2) : PollfdAt(e, i).fd = fd}

\* The slots i < nfds whose descriptor equals fd.
Matches(e, fd) == {i \in 0..(e.nfds - 1) : PollfdAt(e, i).fd = fd}

Min(S) == CHOOSE x \in S : \A y \in S : x <= y

Max(S) == CHOOSE x \in S : \A y \in S : x >= y

\* Mutant of RemoveAt: the descriptor is moved, the context is not.
RemoveAt_KeepsContext(e, i) ==
  [e EXCEPT !.fds = Store(e.fds, i,
                          [PollfdAt(e, i) EXCEPT
                             !.fd = PollfdAt(e, e.nfds - 1).fd],
                          ZeroPollfd),
            !.nfds = e.nfds - 1]

\* Mutant of RemoveAt: the last slot is dropped, whichever slot matched.
RemoveAt_NoSwap(e, i) == [e EXCEPT !.nfds = e.nfds - 1]

\* The removal of fi_epoll_del: slot i takes the last slot's fd and context
\* (not its revents), and nfds drops by one.
RemoveAt(e, i) ==
  [e EXCEPT !.fds = Store(e.fds, i,
                          [PollfdAt(e, i) EXCEPT
                             !.fd = PollfdAt(e, e.nfds - 1).fd],
                          ZeroPollfd),
            !.context = Store(e.context, i, ContextAt(e, e.nfds - 1), NULL),
            !.nfds = e.nfds - 1]

\* Mutant of fi_epoll_del: a failed search puts the cursor back on slot 0.
fi_epoll_del_ResetsCursor(e, fd) ==
  IF Matches(e, fd) = {}
  THEN [ep |-> [e EXCEPT !.index = 0], ret |-> -FI_EINVAL]
  ELSE [ep |-> RemoveAt(e, Min(Matches(e, fd))), ret |-> 0]

\* Mutant of fi_epoll_del: the last matching slot is removed.
fi_epoll_del_LastMatch(e, fd) ==
  IF Matches(e, fd) = {}
  THEN [ep |-> e, ret |-> -FI_EINVAL]
  ELSE [ep |-> RemoveAt(e, Max(Matches(e, fd))), ret |-> 0]

\* fi_epoll_del(ep, fd): removes the first slot whose descriptor is fd.
fi_epoll_del(e, fd) ==
  IF Matches(e, fd) = {}
  THEN [ep |-> e, ret |-> -FI_EINVAL]
  ELSE [ep |-> RemoveAt(e, Min(Matches(e, fd))), ret |-> 0]

\* poll(ep->fds, ep->nfds, timeout).  ready is the set of descriptors the
\* kernel finds readable, err the errno of a failing call (0: none).  The
\* kernel writes revents of the first nfds entries; a call that fails before
\* the copy-out (EFAULT) writes nothing, an interrupted one (EINTR) writes
\* zeros.
poll(e, ready, err) ==
  IF err = EFAULT THEN [fds |-> e.fds, ret |-> -1]
  ELSE IF err = EINTR
  THEN [fds |-> [k \in 1..Len(e.fds) |->
                   IF k <= e.nfds THEN [e.fds[k] EXCEPT !.revents = 0]
                   ELSE e.fds[k]],
        ret |-> -1]
  ELSE [fds |-> [k \in 1..Len(e.fds) |->
                   IF k <= e.nfds
                   THEN [e.fds[k] EXCEPT !.revents =
                           IF e.fds[k].fd \in ready THEN POLLIN ELSE 0]
                   ELSE e.fds[k]],
        ret |-> Cardinality({k \in 1..e.nfds : e.fds[k].fd \in ready})]

\* Mutant of ScanLoop: the last slot of the range with revents set.
ScanLoop_Last(e, lo, hi) ==
  LET S == {i \in lo..(hi - 1) : PollfdAt(e, i).revents # 0}
  IN IF S = {} THEN -1 ELSE Max(S)

\* One scan loop of fi_epoll_wait: the first i in lo..hi-1 with revents set,
\* or -1 when the loop runs to its end.
ScanLoop(e, lo, hi) ==
  LET S == {i \in lo..(hi - 1) : PollfdAt(e, i).revents # 0}
  IN IF S = {} THEN -1 ELSE Min(S)

\* Mutant of Loop2: there is no second loop.
Loop2_Absent(e) == -1

\* Mutant of Loop1: the first loop runs to the end of the block, not to
\* nfds.
Loop1_ToSize(e) == ScanLoop(e, e.index, e.size)

\* Mutant of Loop1: the first loop starts at slot 0, not at the cursor.
Loop1_FromZero(e) == ScanLoop(e, 0, e.nfds)

\* The first loop scans from the cursor to nfds, the second from 0 to the
\* cursor.
Loop1(e) == ScanLoop(e, e.index, e.nfds)

Loop2(e) == ScanLoop(e, 0, e.index)

\* Mutant of Found: the cursor is stored one past the slot found.
Found_StoresNext(e, i, loop) ==
  [ep |-> [e EXCEPT !.index = i + 1], ret |-> ContextAt(e, i), path |-> loop,
   slot |-> i]

\* "found:" stores slot i as the cursor and returns its context.
Found(e, i, loop) ==
  [ep |-> [e EXCEPT !.index = i], ret |-> ContextAt(e, i), path |-> loop,
   slot |-> i]

\* The scan of fi_epoll_wait over the revents poll() left: the two loops,
\* and the return NULL after them.
Scan(e) ==
  IF Loop1(e) >= 0 THEN Found(e, Loop1(e), "loop1")
  ELSE IF Loop2(e) >= 0 THEN Found(e, Loop2(e), "loop2")
  ELSE [ep |-> e, ret |-> NULL, path |-> "fallthrough", slot |-> -1]

\* Mutant of AfterPoll: a poll() that reports nothing puts the cursor back
\* on slot 0.
AfterPoll_ResetsCursor(e, p) ==
  IF p.ret <= 0
  THEN [ep |-> [e EXCEPT !.fds = p.fds, !.index = 0], ret |-> NULL,
        path |-> "poll", slot |-> -1]
  ELSE Scan([e EXCEPT !.fds = p.fds])

\* fi_epoll_wait after poll() has returned p.
AfterPoll(e, p) ==
  IF p.ret <= 0
  THEN [ep |-> [e EXCEPT !.fds = p.fds], ret |-> NULL, path |-> "poll",
        slot |-> -1]
  ELSE Scan([e EXCEPT !.fds = p.fds])

\* fi_epoll_wait(ep, timeout) with the poll() outcome (ready, err).
fi_epoll_wait(e, ready, err) == AfterPoll(e, poll(e, ready, err))

\* poll() with nothing ready and no error returns only when the timeout
\* elapses: never with timeout < 0.
PollReturns(e, ready, err, timeout) ==
  \/ err # 0
  \/ timeout >= 0
  \/ \E i \in 0..(e.nfds - 1) : PollfdAt(e, i).fd \in ready

\* ------------------------------------------------------------------- state
VARIABLES
  ep,      \* the struct fi_epoll behind the handle
  call,    \* the last call made on it: its arguments and what it returned
  live,    \* per descriptor: successful adds minus successful dels
  regCtx,  \* per descriptor: contexts added since its last successful del
  run,     \* contexts returned by the latest consecutive all-ready waits
  budget,  \* calls the caller of the pre-added table has left
  caps,    \* the capability mask handed to the resolver
  allowed, \* the four predicates' results for caps
  load,    \* the readiness the descriptors are kept in, Wait after Wait
  cond     \* a call of fi_wait_cond: its inputs and the deadline it built

vars == <<ep, call, live, regCtx, run, budget, caps, allowed, load, cond>>

\* The table a long-running caller has built: descriptors 101.. with
\* contexts 101.., added in order to a fresh handle.
PreFd(k) == 100 + k
PreCtx(k) == 100 + k

\* The handle e after fi_epoll_add of the pre-added descriptors lo..hi, in
\* order.  The range is halved, and e is read before the range is entered,
\* to keep the evaluation shallow.
RECURSIVE AddRange(_, _, _)
AddRange(e, lo, hi) ==
  IF e.nfds < 0 \/ lo > hi THEN e
  ELSE IF lo = hi THEN fi_epoll_add(e, PreFd(lo), PreCtx(lo), TRUE).ep
  ELSE AddRange(AddRange(e, lo, (lo + hi) \div 2), (lo + hi) \div 2 + 1, hi)

Prefilled(n) == AddRange(fi_epoll_create, 1, n)

\* The descriptors whose calls are tracked: the caller's and the n pre-added.
Tracked(n) ==
  FdSet \cup {PreFd(k) : k \in 1..n} \cup {PreFd(1), PreFd(GROW)}

\* A call: its name and arguments (fd, ctx, timeout), the poll() outcome
\* (ready, err), the cursor it started from, its return value, the return
\* statement of fi_epoll_wait it left through and the slot found.
NoCall == [name |-> "create", fd |-> 0, ctx |-> NULL, ready |-> {},
           timeout |-> 0, err |-> 0, from |-> 0, ret |-> 0, path |-> "none",
           slot |-> -1]

NotResolved == [send |-> -1, recv |-> -1, initiate |-> -1, target |-> -1]

\* The caller makes its calls one by one and nothing keeps a descriptor
\* ready: no load.  Under load, fds are the descriptors poll() still reports
\* at every Wait, from and nfds the cursor and the occupied count the load
\* started with, slots and got the slots found and the contexts returned
\* since.
NoLoad == [mode |-> "calls", fds |-> {}, from |-> 0, nfds |-> 0,
           slots |-> <<>>, got |-> <<>>, served |-> {}]

\* No call of fi_wait_cond was made.
NoCond == [timeout |-> -1, now |-> [tv_sec |-> 0, tv_nsec |-> 0],
           ts |-> [tv_sec |-> 0, tv_nsec |-> 0], path |-> "none"]

InitHandle(n) ==
  /\ ep = Prefilled(n)
  /\ call = NoCall
  /\ live = [d \in Tracked(n) |->
               Cardinality({k \in 1..n : PreFd(k) = d})]
  /\ regCtx = [d \in Tracked(n) |->
                 {PreCtx(k) : k \in {j \in 1..n : PreFd(j) = d}}]
  /\ run = <<>>
  /\ load = NoLoad

\* The handle right after fi_epoll_create.
Init ==
  /\ InitHandle(0)
  /\ cond = NoCond
  /\ budget = 0
  /\ caps = {}
  /\ allowed = NotResolved

\* ----------------------------------------------------------------- actions
Register(fd, ctx, allocOk) ==
  \E r \in {fi_epoll_add(ep, fd, ctx, allocOk)} :
     /\ ep' = r.ep
     /\ call' = [NoCall EXCEPT !.name = "add", !.fd = fd, !.ctx = ctx,
                               !.ret = r.ret]
     /\ live' = IF r.ret = 0 THEN [live EXCEPT ![fd] = @ + 1] ELSE live
     /\ regCtx' = IF r.ret = 0 THEN [regCtx EXCEPT ![fd] = @ \cup {ctx}]
                  ELSE regCtx
     /\ run' = <<>>
     /\ UNCHANGED <<caps, allowed, cond>>

Deregister(fd) ==
  \E r \in {fi_epoll_del(ep, fd)} :
     /\ ep' = r.ep
     /\ call' = [NoCall EXCEPT !.name = "del", !.fd = fd, !.ret = r.ret]
     /\ live' = IF r.ret = 0 /\ live[fd] > 0
                THEN [live EXCEPT ![fd] = @ - 1] ELSE live
     /\ regCtx' = IF r.ret = 0 THEN [regCtx EXCEPT ![fd] = {}] ELSE regCtx
     /\ run' = <<>>
     /\ UNCHANGED <<caps, allowed, cond>>

\* The descriptors in the occupied slots: poll() looks at no others.
Registered(e) == {PollfdAt(e, i).fd : i \in 0..(e.nfds - 1)}

\* Every registered descriptor is in the ready set.
AllReady(e, ready) ==
  /\ e.nfds >= 1
  /\ Registered(e) \subseteq ready

Wait(ready, timeout, err) ==
  /\ PollReturns(ep, ready, err, timeout)
  /\ \E r \in {fi_epoll_wait(ep, ready, err)} :
        /\ ep' = r.ep
        /\ call' = [NoCall EXCEPT !.name = "wait", !.ready = ready,
                                  !.timeout = timeout, !.err = err,
                                  !.from = ep.index,
                                  !.ret = r.ret, !.path = r.path,
                                  !.slot = r.slot]
        /\ run' = IF err = 0 /\ AllReady(ep, ready)
                  THEN IF Len(run) < ep.nfds THEN Append(run, r.ret)
                       ELSE Append(Tail(run), r.ret)
                  ELSE <<>>
        /\ UNCHANGED <<live, regCtx, caps, allowed, cond>>

\* The descriptors the caller deregisters: its own, and the first and the
\* last of a pre-added table.
Probe == FdSet \cup {PreFd(1), PreFd(GROW)}

\* The caller of a fresh handle has no budget of calls; the caller of the
\* pre-added table spends one call of its budget on each.
Free == UNCHANGED <<budget, load>>
Spend == budget > 0 /\ budget' = budget - 1 /\ UNCHANGED load

\* Calls on a handle of at most MaxNfds descriptors.
Next ==
  \/ \E fd \in FdSet : \E ctx \in CtxOf(fd) :
       ep.nfds < MaxNfds /\ Register(fd, ctx, TRUE) /\ Free
  \/ \E fd \in FdSet : \E ctx \in CtxOf(fd) :
       ep.nfds < MaxNfds /\ ep.nfds = ep.size /\ Register(fd, ctx, FALSE)
         /\ Free
  \/ \E fd \in Probe : Deregister(fd) /\ Free
  \/ \E ready \in SUBSET Registered(ep), timeout \in Timeouts :
       Wait(ready, timeout, 0) /\ Free
  \/ \E timeout \in Timeouts, err \in PollErrs \ {0} :
       Wait({}, timeout, err) /\ Free

Spec == Init /\ [][Next]_vars

\* A fresh handle, or one whose first block of GROW entries is full or one
\* short of it, and a caller that makes MaxCalls more calls on it.
InitGrow ==
  /\ \E n \in {0, GROW - 1, GROW} : InitHandle(n)
  /\ budget = MaxCalls
  /\ cond = NoCond
  /\ caps = {}
  /\ allowed = NotResolved

\* The poll() outcomes tried on the large table: nothing, the first slot's
\* descriptor, the last slot's, and every registered descriptor.
GrowReady(e) ==
  {{}, Registered(e)}
    \cup {{PollfdAt(e, i).fd} : i \in {0, e.nfds - 1} \cap 0..(e.nfds - 1)}

NextGrow ==
  \/ \E fd \in FdSet : \E ctx \in CtxOf(fd) :
       Spend /\ Register(fd, ctx, TRUE)
  \/ \E fd \in FdSet : \E ctx \in CtxOf(fd) :
       Spend /\ ep.nfds = ep.size /\ Register(fd, ctx, FALSE)
  \/ \E fd \in Probe : Spend /\ Deregister(fd)
  \/ \E ready \in GrowReady(ep) : Spend /\ Wait(ready, 0, 0)

SpecGrow == InitGrow /\ [][NextGrow]_vars

\* A table of MaxNfds + 1 pre-added descriptors and a caller that makes
\* MaxCalls + 2 calls on it: enough to move the cursor to the last slot, have
\* poll() flag every slot, and deregister down to one descriptor.
InitStale ==
  /\ InitHandle(MaxNfds + 1)
  /\ cond = NoCond
  /\ budget = MaxCalls + 2
  /\ caps = {}
  /\ allowed = NotResolved

NextStale ==
  \/ \E fd \in FdSet : \E ctx \in CtxOf(fd) :
       Spend /\ ep.nfds < MaxNfds + 1 /\ Register(fd, ctx, TRUE)
  \/ \E fd \in Tracked(MaxNfds + 1) : Spend /\ Deregister(fd)
  \/ \E ready \in SUBSET Registered(ep) : Spend /\ Wait(ready, 0, 0)

SpecStale == InitStale /\ [][NextStale]_vars

\* ------------------------------------------------------------ sustained load
\* From here on the descriptors of hot are ready at every poll().
StartSustained(hot) ==
  /\ load.mode = "calls"
  /\ hot # {} /\ hot \subseteq Registered(ep)
  /\ load' = [NoLoad EXCEPT !.mode = "sustained", !.fds = hot,
                            !.from = ep.index, !.nfds = ep.nfds]
  /\ UNCHANGED <<ep, call, live, regCtx, run, budget, caps, allowed, cond>>

\* From here on every registered descriptor is ready until the Wait that
\* returns its context: the caller drains it before it calls Wait again.
StartDrain ==
  /\ load.mode = "calls"
  /\ ep.nfds >= 1
  /\ load' = [NoLoad EXCEPT !.mode = "drain", !.fds = Registered(ep),
                            !.from = ep.index, !.nfds = ep.nfds]
  /\ UNCHANGED <<ep, call, live, regCtx, run, budget, caps, allowed, cond>>

\* The descriptor of the slot the Wait just made found, if it found one.
Returned == IF call'.slot >= 0 THEN {PollfdAt(ep', call'.slot).fd} ELSE {}

\* A Wait under sustained load: poll() reports the hot descriptors and any
\* of the others.
SustainedWait(ready, timeout) ==
  /\ load.mode = "sustained"
  /\ load.fds \subseteq ready
  /\ Wait(ready, timeout, 0)
  /\ load' = [load EXCEPT !.served = @ \cup Returned]
  /\ UNCHANGED budget

\* A Wait of the draining caller: poll() reports the descriptors not yet
\* drained, and the one whose context is returned is drained.
DrainWait(timeout) ==
  /\ load.mode = "drain"
  /\ load.fds # {}
  /\ Wait(load.fds, timeout, 0)
  /\ load' = [load EXCEPT !.fds = @ \ Returned,
                          !.slots = Append(@, call'.slot),
                          !.got = Append(@, call'.ret)]
  /\ UNCHANGED budget

\* The caller under load calls Wait again and again.
KeepWaiting ==
  \E ready \in SUBSET Registered(ep), timeout \in Timeouts :
    SustainedWait(ready, timeout)

\* Calls on a handle of at most MaxNfds descriptors, then Waits under load.
NextLoad ==
  \/ \E fd \in FdSet : \E ctx \in CtxOf(fd) :
       load.mode = "calls" /\ ep.nfds < MaxNfds /\ Register(fd, ctx, TRUE)
         /\ Free
  \/ \E fd \in FdSet : load.mode = "calls" /\ Deregister(fd) /\ Free
  \/ \E ready \in SUBSET Registered(ep) :
       load.mode = "calls" /\ Wait(ready, 0, 0) /\ Free
  \/ \E hot \in SUBSET Registered(ep) : StartSustained(hot)
  \/ StartDrain
  \/ \E ready \in SUBSET Registered(ep), timeout \in Timeouts :
       SustainedWait(ready, timeout)
  \/ \E timeout \in Timeouts : DrainWait(timeout)

SpecLoad == Init /\ [][NextLoad]_vars /\ WF_vars(KeepWaiting)

\* ------------------------------------------------- capability resolver
\* The ten capability bits of the mask; caps & FI_X is membership.
Flags ==
  {"FI_MSG", "FI_TAGGED", "FI_RMA", "FI_ATOMICS", "FI_SEND", "FI_RECV",
   "FI_WRITE", "FI_READ", "FI_REMOTE_WRITE", "FI_REMOTE_READ"}

Has(c, f) == f \in c

\* Mutant of fi_send_allowed: the opposite flag is checked first.
fi_send_allowed_OppositeFirst(c) ==
  IF Has(c, "FI_MSG") \/ Has(c, "FI_TAGGED")
  THEN IF Has(c, "FI_RECV") THEN 0
       ELSE IF Has(c, "FI_SEND") THEN 1
       ELSE 1
  ELSE 0

fi_send_allowed(c) ==
  IF Has(c, "FI_MSG") \/ Has(c, "FI_TAGGED")
  THEN IF Has(c, "FI_SEND") THEN 1
       ELSE IF Has(c, "FI_RECV") THEN 0
       ELSE 1
  ELSE 0

\* Mutant of fi_recv_allowed: the body of fi_send_allowed, flags not swapped.
fi_recv_allowed_CopyOfSend(c) ==
  IF Has(c, "FI_MSG") \/ Has(c, "FI_TAGGED")
  THEN IF Has(c, "FI_SEND") THEN 1
       ELSE IF Has(c, "FI_RECV") THEN 0
       ELSE 1
  ELSE 0

fi_recv_allowed(c) ==
  IF Has(c, "FI_MSG") \/ Has(c, "FI_TAGGED")
  THEN IF Has(c, "FI_RECV") THEN 1
       ELSE IF Has(c, "FI_SEND") THEN 0
       ELSE 1
  ELSE 0

fi_rma_initiate_allowed(c) ==
  IF Has(c, "FI_RMA") \/ Has(c, "FI_ATOMICS")
  THEN IF Has(c, "FI_WRITE") \/ Has(c, "FI_READ") THEN 1
       ELSE IF Has(c, "FI_REMOTE_WRITE") \/ Has(c, "FI_REMOTE_READ") THEN 0
       ELSE 1
  ELSE 0

\* Mutant of fi_rma_target_allowed: FI_REMOTE_READ is not looked at.
fi_rma_target_allowed_NoRemoteRead(c) ==
  IF Has(c, "FI_RMA") \/ Has(c, "FI_ATOMICS")
  THEN IF Has(c, "FI_REMOTE_WRITE") THEN 1
       ELSE IF Has(c, "FI_WRITE") \/ Has(c, "FI_READ") THEN 0
       ELSE 1
  ELSE 0

fi_rma_target_allowed(c) ==
  IF Has(c, "FI_RMA") \/ Has(c, "FI_ATOMICS")
  THEN IF Has(c, "FI_REMOTE_WRITE") \/ Has(c, "FI_REMOTE_READ") THEN 1
       ELSE IF Has(c, "FI_WRITE") \/ Has(c, "FI_READ") THEN 0
       ELSE 1
  ELSE 0

\* Any mask over the ten bits, not yet resolved.
InitCaps ==
  /\ InitHandle(0)
  /\ cond = NoCond
  /\ budget = 0
  /\ caps \in SUBSET Flags
  /\ allowed = NotResolved

\* The four predicates applied to the mask.
Resolve ==
  /\ allowed = NotResolved
  /\ allowed' = [send |-> fi_send_allowed(caps),
                 recv |-> fi_recv_allowed(caps),
                 initiate |-> fi_rma_initiate_allowed(caps),
                 target |-> fi_rma_target_allowed(caps)]
  /\ UNCHANGED <<ep, call, live, regCtx, run, budget, caps, load, cond>>

NextCaps == Resolve

SpecCaps == InitCaps /\ [][NextCaps]_vars

\* ------------------------------------------------------------ fi_wait_cond
\* The timeouts in milliseconds fi_wait_cond is called with (negative: wait
\* without a deadline) and the values clock_gettime(CLOCK_REALTIME) fills
\* the timespec with: tv_nsec is in 0..999999999.
CondTimeouts == {-1, 0, 1, 500, 999, 1000, 1001, 1999, 2500, 60000}
ClockSec == {0, 1700000000}
ClockNsec ==
  {0, 1, 999999, 1000000, 499999999, 500000000, 999000000, 999999999}

\* fi_wait_cond(cond, mut, timeout) of the build without _WIN32, with now
\* the clock value read: the call it ends in and the timespec it hands to
\* pthread_cond_timedwait.  timeout is not negative where / and % are
\* applied, and no sum leaves the range of int or long.
fi_wait_cond(timeout, now) ==
  IF timeout < 0
  THEN [timeout |-> timeout, now |-> now, ts |-> NoCond.ts,
        path |-> "pthread_cond_wait"]
  ELSE [timeout |-> timeout, now |-> now,
        ts |-> [tv_sec |-> now.tv_sec + timeout \div 1000,
                tv_nsec |-> now.tv_nsec + (timeout % 1000) * 1000000],
        path |-> "pthread_cond_timedwait"]

\* A call of fi_wait_cond about to be made.
InitCond ==
  /\ InitHandle(0)
  /\ budget = 0
  /\ caps = {}
  /\ allowed = NotResolved
  /\ \E t \in CondTimeouts, s \in ClockSec, n \in ClockNsec :
       cond = [NoCond EXCEPT !.timeout = t,
                             !.now = [tv_sec |-> s, tv_nsec |-> n]]

WaitCond ==
  /\ cond.path = "none"
  /\ cond' = fi_wait_cond(cond.timeout, cond.now)
  /\ UNCHANGED <<ep, call, live, regCtx, run, budget, caps, allowed, load>>

NextCond == WaitCond

SpecCond == InitCond /\ [][NextCond]_vars

\* =================================================================== claims
\* The descriptor and the context slot i holds.
Entry(e, i) == <<PollfdAt(e, i).fd, ContextAt(e, i)>>

\* The last call was a Wait whose poll() reported exactly descriptor d.
WaitOnly(d) == call.name = "wait" /\ call.err = 0 /\ call.ready = {d}

\* No descriptor is registered twice over.
Distinct == \A d \in DOMAIN live : live[d] <= 1

\* C1: with N >= 2 distinct descriptors registered and every poll()
\* reporting all of them ready, N consecutive Waits return the N contexts of
\* the table once each, in rotating slot order.
C1_RotatingFairness ==
  (Distinct /\ ep.nfds >= 2 /\ Len(run) = ep.nfds) =>
    \E s \in 0..(ep.nfds - 1) :
      \A k \in 1..ep.nfds : run[k] = ContextAt(ep, (s + k - 1) % ep.nfds)

C3_DeregisterOnce ==
  [][(call'.name = "del" /\ live[call'.fd] <= 1) =>
       IF live[call'.fd] = 1
       THEN call'.ret = 0 /\ live'[call'.fd] = 0
       ELSE call'.ret = -FI_EINVAL /\ live' = live]_vars

\* Descriptors 1 and 2 were registered and deregistered, 1 first, and the
\* second Deregister of 2 failed.
C3_Witness ==
  /\ call.name = "del" /\ call.fd = 2 /\ call.ret = -FI_EINVAL
  /\ ep.nfds = 0 /\ Len(ep.fds) >= 2
  /\ PollfdAt(ep, 0).fd = 2 /\ PollfdAt(ep, 1).fd = 2
  /\ \A d \in DOMAIN live : live[d] = 0

\* C4: a successful Register on a full table (nfds = size, size 0 included)
\* leaves every occupied slot's descriptor and context at its index and puts
\* the new pair at the old occupied count.
C4_GrowthPreserves ==
  [][(call'.name = "add" /\ call'.ret = 0 /\ ep.nfds = ep.size) =>
       /\ ep'.nfds = ep.nfds + 1
       /\ ep'.size > ep.size
       /\ \A i \in 0..(ep.nfds - 1) : Entry(ep', i) = Entry(ep, i)
       /\ Entry(ep', ep.nfds) = <<call'.fd, call'.ctx>>]_vars

\* The table grew from GROW to 2 * GROW entries on the Register of entry
\* GROW + 1, after a Deregister had moved the last pre-added descriptor.
C4_Witness ==
  /\ call.name = "add" /\ call.ret = 0
  /\ ep.size = 2 * GROW /\ ep.nfds = GROW + 1
  /\ Entry(ep, 0) = <<PreFd(GROW), PreCtx(GROW)>>
  /\ Entry(ep, GROW) = <<call.fd, call.ctx>>

\* The lowest slot below nfds that holds descriptor d.
C5_Lowest(e, d) ==
  CHOOSE i \in 0..(e.nfds - 1) :
    /\ PollfdAt(e, i).fd = d
    /\ \A j \in 0..(i - 1) : PollfdAt(e, j).fd # d

\* C5: a successful Deregister(h, d) takes one off the occupied count, puts
\* the last occupied slot's descriptor and context in the lowest slot that
\* held d, and leaves every other remaining slot as it was.
C5_SwapWithLast ==
  [][(call'.name = "del" /\ call'.ret = 0) =>
       /\ ep'.nfds = ep.nfds - 1
       /\ \A i \in 0..(ep'.nfds - 1) :
            Entry(ep', i) = IF i = C5_Lowest(ep, call'.fd)
                            THEN Entry(ep, ep.nfds - 1)
                            ELSE Entry(ep, i)]_vars

\* The first of GROW pre-added descriptors was deregistered: slot 0 took the
\* last slot's pair and slot 1 kept its own.
C5_Witness ==
  /\ call.name = "del" /\ call.ret = 0 /\ call.fd = PreFd(1)
  /\ ep.nfds = GROW - 1
  /\ Entry(ep, 0) = <<PreFd(GROW), PreCtx(GROW)>>
  /\ Entry(ep, 1) = <<PreFd(2), PreCtx(2)>>

\* C7: a Register that fails returns -FI_ENOMEM, on a full table only, and
\* leaves the handle as it was: size, nfds, descriptors, contexts, cursor.
C7_NoMemUnchanged ==
  [][(call'.name = "add" /\ call'.ret # 0) =>
       /\ call'.ret = -FI_ENOMEM
       /\ ep.nfds = ep.size
       /\ ep' = ep]_vars

\* Register failed on a full block of GROW entries whose cursor a Wait had
\* moved to the last slot.
C7_Witness ==
  /\ call.name = "add" /\ call.ret = -FI_ENOMEM
  /\ ep.size = GROW /\ ep.nfds = GROW /\ ep.index = GROW - 1

\* C6: Wait returns NULL through the check of poll()'s result when poll()
\* fails or reports nothing ready; when poll() reports a registered
\* descriptor ready, Wait leaves through "found" with the context of an
\* occupied slot holding a ready descriptor; the return NULL after the two
\* loops is never taken.
C6_WaitFindsReady ==
  call.name = "wait" =>
    /\ call.path # "fallthrough"
    /\ (call.err # 0 \/ call.ready \cap Registered(ep) = {}) =>
         (call.path = "poll" /\ call.ret = NULL)
    /\ (call.err = 0 /\ call.ready \cap Registered(ep) # {}) =>
         /\ call.path \in {"loop1", "loop2"}
         /\ call.slot \in 0..(ep.nfds - 1)
         /\ PollfdAt(ep, call.slot).fd \in call.ready
         /\ call.ret = ContextAt(ep, call.slot)

\* A Wait that started from a cursor at or beyond the occupied count (left
\* there by a Deregister) found a ready slot in its second loop.
C6_Witness ==
  /\ call.name = "wait" /\ call.path = "loop2"
  /\ ep.nfds >= 1 /\ call.from >= ep.nfds
  /\ call.ret = ContextAt(ep, call.slot)

\* The policy of one direction: class bits, own flags, opposite flags.
RefPolicy(c, class, own, opposite) ==
  IF c \cap class = {} THEN 0
  ELSE IF c \cap own # {} THEN 1
  ELSE IF c \cap opposite # {} THEN 0
  ELSE 1

\* C8: fi_send_allowed and fi_recv_allowed follow the reference policy over
\* {MSG, TAGGED}, with SEND and RECV as own and opposite flags.
C8_SendRecvPolicy ==
  allowed # NotResolved =>
    /\ allowed.send =
         RefPolicy(caps, {"FI_MSG", "FI_TAGGED"}, {"FI_SEND"}, {"FI_RECV"})
    /\ allowed.recv =
         RefPolicy(caps, {"FI_MSG", "FI_TAGGED"}, {"FI_RECV"}, {"FI_SEND"})
    /\ caps = {"FI_TAGGED", "FI_SEND"} =>
         (allowed.send = 1 /\ allowed.recv = 0)
    /\ caps = {"FI_TAGGED"} => (allowed.send = 1 /\ allowed.recv = 1)
    /\ caps \cap {"FI_MSG", "FI_TAGGED"} = {} =>
         (allowed.send = 0 /\ allowed.recv = 0)

\* {TAGGED, SEND} resolved: send allowed, receive not.
C8_Witness ==
  /\ caps = {"FI_TAGGED", "FI_SEND"}
  /\ allowed.send = 1 /\ allowed.recv = 0

\* C9: fi_rma_initiate_allowed and fi_rma_target_allowed follow the
\* reference policy over {RMA, ATOMICS}, with {WRITE, READ} and
\* {REMOTE_WRITE, REMOTE_READ} as own and opposite flags.
C9_RmaPolicy ==
  allowed # NotResolved =>
    /\ allowed.initiate =
         RefPolicy(caps, {"FI_RMA", "FI_ATOMICS"}, {"FI_WRITE", "FI_READ"},
                   {"FI_REMOTE_WRITE", "FI_REMOTE_READ"})
    /\ allowed.target =
         RefPolicy(caps, {"FI_RMA", "FI_ATOMICS"},
                   {"FI_REMOTE_WRITE", "FI_REMOTE_READ"},
                   {"FI_WRITE", "FI_READ"})
    /\ caps = {"FI_RMA", "FI_REMOTE_WRITE"} =>
         (allowed.initiate = 0 /\ allowed.target = 1)
    /\ caps \cap {"FI_RMA", "FI_ATOMICS"} = {} =>
         (allowed.initiate = 0 /\ allowed.target = 0)

\* {RMA, REMOTE_WRITE} resolved: initiate not allowed, target allowed.
C9_Witness ==
  /\ caps = {"FI_RMA", "FI_REMOTE_WRITE"}
  /\ allowed.initiate = 0 /\ allowed.target = 1

\* C10 as stated: the cursor is below the occupied count, or 0 on an empty
\* handle.
C10_CursorInOccupiedRange ==
  IF ep.nfds = 0 THEN ep.index = 0
  ELSE 0 <= ep.index /\ ep.index < ep.nfds

\* C10 as amended: the cursor is 0 while the handle has no table, and
\* otherwise the index of a slot of the table that holds or has held a
\* descriptor; right after a Wait that returns a context it is the slot
\* found, below the occupied count.
C10_CursorInBlock ==
  /\ Len(ep.fds) <= ep.size
  /\ IF ep.size = 0 THEN ep.index = 0
     ELSE 0 <= ep.index /\ ep.index < Len(ep.fds)
  /\ (call.name = "wait" /\ call.path \in {"loop1", "loop2"}) =>
       (ep.index = call.slot /\ ep.index < ep.nfds)

\* A Deregister left the cursor, which a Wait had put on the last occupied
\* slot, beyond the occupied range.
C10_Witness ==
  /\ call.name = "del" /\ call.ret = 0
  /\ ep.nfds >= 1 /\ ep.index >= ep.nfds /\ ep.index < ep.size

\* C11: the occupied count never exceeds the capacity; Deregister and Wait
\* leave the capacity as it is, and Register changes it only when it
\* succeeds on a full table, then by exactly 64 slots.
C11_CapacityGrowsBy64 ==
  /\ [](ep.nfds <= ep.size)
  /\ [][/\ ep'.size >= ep.size
        /\ call'.name \in {"del", "wait"} => ep'.size = ep.size
        /\ call'.name = "add" =>
             ep'.size = IF ep.nfds = ep.size /\ call'.ret = 0
                        THEN ep.size + 64 ELSE ep.size]_vars

\* The caller's first Register filled the last free slot of the first
\* block without growing it, and its second grew the table to two blocks.
C11_Witness ==
  /\ call.name = "add" /\ call.ret = 0
  /\ ep.size = 128 /\ ep.nfds = 65
  /\ PollfdAt(ep, 63).fd \in FdSet /\ PollfdAt(ep, 64).fd \in FdSet

\* The occupied slots that hold descriptor d.
SlotsOf(d) == {i \in 0..(ep.nfds - 1) : PollfdAt(ep, i).fd = d}

\* C12 as stated: no two occupied slots hold the same descriptor.
C12_DescriptorsUnique ==
  \A i, j \in 0..(ep.nfds - 1) :
    i # j => PollfdAt(ep, i).fd # PollfdAt(ep, j).fd

\* C12 as amended: a descriptor holds as many occupied slots as it has
\* successful Registers not yet undone by a successful Deregister, so it
\* appears at most once as long as it is not registered again while it is
\* registered.
C12_OneSlotPerRegistration ==
  /\ \A i \in 0..(ep.nfds - 1) : PollfdAt(ep, i).fd \in DOMAIN live
  /\ \A d \in DOMAIN live : Cardinality(SlotsOf(d)) = live[d]
  /\ Distinct => \A d \in DOMAIN live : Cardinality(SlotsOf(d)) <= 1

\* Descriptor 1 was registered again after its Deregister had moved
\* descriptor 2 to slot 0: each of the two holds one slot.
C12_Witness ==
  /\ call.name = "add" /\ call.fd = 1 /\ call.ret = 0
  /\ ep.nfds = 2 /\ PollfdAt(ep, 0).fd = 2 /\ PollfdAt(ep, 1).fd = 1
  /\ live[1] = 1 /\ live[2] = 1

\* The occupied slots 0..n-1 in circular order from cursor c: c..n-1, then
\* 0..c-1 (all of 0..n-1 when the cursor is not below n).
CircOrder(c, n) ==
  [k \in 1..n |-> IF c < n THEN (c + k - 1) % n ELSE k - 1]

\* The first slot of the order whose descriptor is in the ready set.
FirstReady(ord, ready) ==
  ord[CHOOSE k \in DOMAIN ord :
        /\ PollfdAt(ep, ord[k]).fd \in ready
        /\ \A j \in 1..(k - 1) : PollfdAt(ep, ord[j]).fd \notin ready]

\* C13: a Wait whose poll() reports a registered descriptor ready returns
\* the context of the first ready occupied slot in circular order from the
\* cursor it started with, and leaves the cursor on that slot.
C13_FirstReadyInCircularOrder ==
  (call.name = "wait" /\ call.err = 0 /\ call.ready \cap Registered(ep) # {})
    => /\ call.slot = FirstReady(CircOrder(call.from, ep.nfds), call.ready)
       /\ call.ret = ContextAt(ep, call.slot)
       /\ ep.index = call.slot

\* With slots 0 and 1 both ready and the cursor on slot 1, Wait returned
\* slot 1's context, not slot 0's.
C13_Witness ==
  /\ call.name = "wait" /\ call.err = 0 /\ call.from = 1
  /\ ep.nfds = 2 /\ Registered(ep) = {1, 2} /\ call.ready = {1, 2}
  /\ call.slot = 1 /\ call.ret = ContextAt(ep, 1)

\* C14: under sustained load a descriptor that is ready at every poll() has
\* its context returned by some later Wait, whatever else is ready.
C14_NoStarvation ==
  \A d \in FdSet :
    (load.mode = "sustained" /\ d \in load.fds) ~> (d \in load.served)

\* No descriptor holds two occupied slots.
NoDuplicate == \A d \in DOMAIN live : Cardinality(SlotsOf(d)) <= 1

\* C18: with the N registered descriptors all ready and each drained once
\* its context is returned, the Waits return the contexts of the N occupied
\* slots once each, in circular slot order from the cursor the drain started
\* with, and it takes exactly N Waits to drain them all.
C18_DrainRotation ==
  (load.mode = "drain" /\ NoDuplicate) =>
    /\ Len(load.slots) <= load.nfds
    /\ Len(load.got) = Len(load.slots)
    /\ \A k \in 1..Len(load.slots) :
         /\ load.slots[k] = CircOrder(load.from, load.nfds)[k]
         /\ load.got[k] = ContextAt(ep, load.slots[k])
    /\ (load.fds = {}) <=> (Len(load.slots) = load.nfds)

\* Two descriptors were drained from a cursor on slot 1: slot 1 first, then
\* slot 0 through the second loop.
C18_Witness ==
  /\ load.mode = "drain" /\ load.fds = {} /\ NoDuplicate
  /\ load.nfds = 2 /\ load.from = 1
  /\ load.slots = <<1, 0>>
  /\ load.got = <<ContextAt(ep, 1), ContextAt(ep, 0)>>

\* C15: Wait leaves the occupied count, the capacity, the descriptors and
\* the contexts as they were; it returns NULL and leaves the cursor alone
\* when poll() reports nothing, and otherwise returns the context of one
\* slot, the one it leaves the cursor on, however many are ready.
C15_WaitFrame ==
  [][call'.name = "wait" =>
       /\ ep'.nfds = ep.nfds /\ ep'.size = ep.size
       /\ Len(ep'.fds) = Len(ep.fds)
       /\ \A k \in 1..Len(ep.fds) :
            /\ ep'.fds[k].fd = ep.fds[k].fd
            /\ ep'.fds[k].events = ep.fds[k].events
       /\ ep'.context = ep.context
       /\ IF call'.path \in {"loop1", "loop2"}
          THEN /\ call'.slot \in 0..(ep.nfds - 1)
               /\ call'.ret = ContextAt(ep, call'.slot)
               /\ ep'.index = call'.slot
          ELSE /\ call'.ret = NULL
               /\ ep'.index = ep.index]_vars

\* Both slots were ready and flagged by poll(); Wait returned slot 0's
\* context only and left the table as it was.
C15_Witness ==
  /\ call.name = "wait" /\ call.err = 0 /\ call.from = 0 /\ call.slot = 0
  /\ ep.nfds = 2 /\ Registered(ep) = {1, 2}
  /\ PollfdAt(ep, 0).revents # 0 /\ PollfdAt(ep, 1).revents # 0
  /\ call.ret = ContextAt(ep, 0) /\ ep.index = 0

\* C16: a Deregister of a descriptor that is in no occupied slot returns
\* -FI_EINVAL and leaves the handle as it was: size, nfds, descriptors,
\* contexts, cursor.
C16_AbsentDeregisterUnchanged ==
  [][(call'.name = "del" /\ call'.fd \notin Registered(ep)) =>
       /\ call'.ret = -FI_EINVAL
       /\ ep' = ep]_vars

\* Descriptor 2 was deregistered a second time: its freed slot 1 still
\* held it, the call failed and the cursor stayed on slot 1.
C16_Witness ==
  /\ call.name = "del" /\ call.fd = 2 /\ call.ret = -FI_EINVAL
  /\ ep.nfds = 1 /\ PollfdAt(ep, 0).fd = 1
  /\ Len(ep.fds) >= 2 /\ PollfdAt(ep, 1).fd = 2
  /\ ep.index = 1

\* C17: a context Wait returns is the context of an occupied slot whose
\* descriptor is registered (more successful Registers than Deregisters)
\* and in the ready set of the poll() just made; it is the context the
\* descriptor was registered with when that is one registration.
C17_ReturnsLiveReadyContext ==
  (call.name = "wait" /\ call.path \in {"loop1", "loop2"}) =>
    /\ call.slot \in 0..(ep.nfds - 1)
    /\ PollfdAt(ep, call.slot).fd \in call.ready
    /\ live[PollfdAt(ep, call.slot).fd] >= 1
    /\ call.ret = ContextAt(ep, call.slot)
    /\ (/\ live[PollfdAt(ep, call.slot).fd] = 1
        /\ Cardinality(regCtx[PollfdAt(ep, call.slot).fd]) = 1) =>
         call.ret \in regCtx[PollfdAt(ep, call.slot).fd]

\* Two Deregisters left one descriptor, the cursor on slot 2 and, below the
\* cursor, freed slot 1 with its readiness flag set and the context of a
\* deregistered descriptor; Wait returned slot 0's context.
C17_Witness ==
  /\ call.name = "wait" /\ call.path = "loop2" /\ call.slot = 0
  /\ ep.nfds = 1 /\ call.from = 2
  /\ PollfdAt(ep, 1).revents # 0
  /\ live[PollfdAt(ep, 1).fd] = 0
  /\ ContextAt(ep, 1) # ContextAt(ep, 0)
  /\ call.ret = ContextAt(ep, 0)

\* C19: for a mask with MSG or TAGGED at least one of fi_send_allowed and
\* fi_recv_allowed is 1, and for a mask with RMA or ATOMICS at least one of
\* fi_rma_initiate_allowed and fi_rma_target_allowed is 1.
C19_NeverDeclinesBoth ==
  allowed # NotResolved =>
    /\ (Has(caps, "FI_MSG") \/ Has(caps, "FI_TAGGED")) =>
         (allowed.send = 1 \/ allowed.recv = 1)
    /\ (Has(caps, "FI_RMA") \/ Has(caps, "FI_ATOMICS")) =>
         (allowed.initiate = 1 \/ allowed.target = 1)

\* {MSG, RECV, ATOMICS, READ} resolved: one direction of each class is
\* declined, the other allowed.
C19_Witness ==
  /\ caps = {"FI_MSG", "FI_RECV", "FI_ATOMICS", "FI_READ"}
  /\ allowed.send = 0 /\ allowed.recv = 1
  /\ allowed.initiate = 1 /\ allowed.target = 0

\* C20: for a timeout >= 0 and a clock value with tv_nsec in 0..999999999
\* the deadline handed to pthread_cond_timedwait has tv_nsec in
\* 0..999999999.
C20_DeadlineNsecNormalised ==
  cond.path = "pthread_cond_timedwait" =>
    (0 <= cond.ts.tv_nsec /\ cond.ts.tv_nsec < 1000000000)

====
